---- MODULE Spec2Model ----
(***************************************************************************)
(* Rule storage and scoping of the Copilot Memory extension: the           *)
(* RuleManager (src/src/ruleManager.ts, second listing), the MongoService  *)
(* connection service, the text helpers, the add-rule command handler, the  *)
(* ExtensionAPI offered to other extensions, and the simple storage of      *)
(* src/src/extension.ts.                                                    *)
(*                                                                         *)
(* Strings that the code inspects character by character (rule texts) are  *)
(* sequences of one-character strings.  Dates are millisecond counts.      *)
(* crypto.randomUUID() is a fresh natural number.                          *)
(***************************************************************************)
EXTENDS Integers, Sequences, FiniteSets, TLC

VARIABLES
    workspaceRoot,    \* vscode.workspace.workspaceFolders?.[0]?.uri.fsPath
    mongodbUri,       \* configuration copilotMemory.mongodbUri
    fallbackToLocal,  \* RuleManager.fallbackToLocal
    maxRulesPerScope, \* configuration copilotMemory.maxRulesPerScope
    localFilePath,    \* RuleManager.localFilePath
    rules,            \* RuleManager.rules
    mongoService,     \* RuleManager.mongoService and the MongoService fields
    connectCalls,     \* the connect() calls of other holders of the service
    ruleModel,        \* RuleManager.ruleModel (TRUE when a model is set)
    initPc,           \* position of RuleManager.initialize()
    loadedFrom,       \* which loader filled `rules` in this session
    findResult,       \* how the find() of loadRulesFromMongo ended
    files,            \* the file system: one JSON document per path
    remote,           \* the documents of the copilot_rules collection
    inflight,         \* manager calls suspended at an await on the remote
    last,             \* the last rule or scope call that returned to its caller
    previous,         \* what the previous session left behind
    nextId,           \* source of fresh ruleIds
    clock,            \* Date.now()
    customScopes,     \* ExtensionAPI.customScopes
    changeListeners,  \* ExtensionAPI.changeListeners
    simpleRules,      \* the module-level `rules` of extension.ts
    storageFile       \* the module-level `storageFile` of extension.ts

vars == <<workspaceRoot, mongodbUri, fallbackToLocal, maxRulesPerScope,
          localFilePath, rules, mongoService, connectCalls, ruleModel, initPc, loadedFrom, findResult, files,
          remote, inflight, last, previous, nextId, clock, customScopes,
          changeListeners, simpleRules, storageFile>>

apiVars == <<customScopes, changeListeners>>
simpleVars == <<simpleRules, storageFile>>

-----------------------------------------------------------------------------
(* Bounds of the model *)

MaxAdds == 2

-----------------------------------------------------------------------------
(* Program constants *)

MaxRuleTextLength == 500
MaxRetries == 3
RetryDelayMs == 1000
DefaultMaxRulesPerScope == 100
DefaultUri == "mongodb://localhost:27017/copilot-memory"
CustomUri == "mongodb://db.example:27017/rules"
Undefined == "undefined"
GlobalStoragePath == "globalStorage"
FileName == ".copilot-memory.json"
RuleAddedMessage == "Rule added successfully!"
FailedToAddMessage == "Failed to add rule"

-----------------------------------------------------------------------------
(* Input domains *)

Rep(c, n) == [i \in 1..n |-> c]

Whitespace == {" ", "\t", "\n"}

Texts ==
    { <<>>,
      <<" ", "\t">>,
      <<"a", " ", "b">>,
      <<" ", "a", " ", "\t", " ", "b", "\n">>,
      Rep("x", MaxRuleTextLength),
      Rep("x", MaxRuleTextLength + 1),
      Rep("x", MaxRuleTextLength - 1) \o <<" ", " ">> }

Languages == {"typescript", "javascript"}

\* what a user answers to the prompts of the add-rule command: the rule text,
\* the scope and the language; an Undefined answer is a dismissed prompt, and
\* a prompt the command never shows has no answer
Answer(text, scope, language) ==
    [text |-> text, scope |-> scope, language |-> language]

CommandAnswers ==
    { Answer(<<" ">>, Undefined, Undefined),
      Answer(<<"c">>, Undefined, Undefined),
      Answer(<<"c">>, "language", Undefined),
      Answer(<<" ", "a", " ", "\t", " ", "b", "\n">>, "global", Undefined),
      Answer(<<"c">>, "project", Undefined),
      Answer(<<"c">>, "language", "typescript") }

Roots == {Undefined, "/a", "/b"}

\* the functions other extensions subscribe with onRuleChanged
Listeners == {"listener1", "listener2"}
Uris == {DefaultUri, CustomUri}
Scopes == {"global", "project", "language"}

\* values of copilotMemory.maxRulesPerScope: the least valid one, the next,
\* and the default
RuleLimits == {1, 2, DefaultMaxRulesPerScope}

\* the other holders of the MongoService instance that call connect()
Callers == {"caller1", "caller2"}
RuleIds == 1..MaxAdds

-----------------------------------------------------------------------------
(* utils/helpers *)

IsWs(c) == c \in Whitespace

RECURSIVE FirstNonWs(_, _)
FirstNonWs(s, i) ==
    IF i > Len(s) \/ ~IsWs(s[i]) THEN i ELSE FirstNonWs(s, i + 1)

RECURSIVE LastNonWs(_, _)
LastNonWs(s, i) ==
    IF i < 1 \/ ~IsWs(s[i]) THEN i ELSE LastNonWs(s, i - 1)

\* String.prototype.trim
trim(s) ==
    LET lo == FirstNonWs(s, 1)
        hi == LastNonWs(s, Len(s))
    IN  IF lo > hi THEN <<>> ELSE SubSeq(s, lo, hi)

\* String.prototype.replace(/\s+/g, ' ')
replaceWsRuns(s) ==
    LET marked == [i \in 1..Len(s) |->
                     [ch  |-> s[i],
                      dup |-> IsWs(s[i]) /\ i > 1 /\ IsWs(s[i - 1])]]
        kept == SelectSeq(marked, LAMBDA m : ~m.dup)
    IN  [i \in 1..Len(kept) |-> IF IsWs(kept[i].ch) THEN " " ELSE kept[i].ch]

validateRuleText(text) ==
    IF text = <<>> \/ Len(trim(text)) = 0
    THEN [isValid |-> FALSE, error |-> "Rule text cannot be empty"]
    ELSE IF Len(text) > MaxRuleTextLength
    THEN [isValid |-> FALSE, error |-> "Rule text must be less than 500 characters"]
    ELSE [isValid |-> TRUE, error |-> Undefined]

sanitizeInput(input) == replaceWsRuns(trim(input))

-----------------------------------------------------------------------------
(* Rule records, JSON documents and the local file *)

RuleKeys == {"ruleId", "ruleText", "scope", "languageScope", "projectPath",
             "createdAt", "updatedAt", "isActive"}
OptionalKeys == {"languageScope", "projectPath"}
DateKeys == {"createdAt", "updatedAt"}

\* Date.prototype.toISOString: millisecond precision
toISOString(d) == <<"ISO-8601", d>>

\* new Date(isoString)
newDate(s) == s[2]

toISOStringSeconds(d) == <<"ISO-8601", (d \div 1000) * 1000>>

ruleToJSONSeconds(rule) ==
    [k \in {k \in RuleKeys : k \notin OptionalKeys \/ rule[k] # Undefined} |->
        IF k \in DateKeys THEN toISOStringSeconds(rule[k]) ELSE rule[k]]

\* JSON.stringify of one rule: undefined members are left out, Dates become
\* ISO strings
ruleToJSON(rule) ==
    [k \in {k \in RuleKeys : k \notin OptionalKeys \/ rule[k] # Undefined} |->
        IF k \in DateKeys THEN toISOString(rule[k]) ELSE rule[k]]

\* JSON.stringify(this.rules, null, 2)
stringify(rs) == [i \in 1..Len(rs) |-> ruleToJSON(rs[i])]

\* JSON.parse(data).map(rule => ({...rule, createdAt: new Date(..), ..}));
\* a member the document lacks reads as undefined
ruleFromJSON(doc) ==
    [k \in RuleKeys |->
        IF k \in DateKeys THEN newDate(doc[k])
        ELSE IF k \in DOMAIN doc THEN doc[k]
        ELSE Undefined]

parse(data) == [i \in 1..Len(data) |-> ruleFromJSON(data[i])]

NoFile == [exists |-> FALSE, data |-> <<>>]

\* path.join(root || globalStorageUri.fsPath, '.copilot-memory.json')
PathOf(root) ==
    <<IF root = Undefined THEN GlobalStoragePath ELSE root, FileName>>

Paths == {PathOf(r) : r \in Roots}

\* extension.ts getStorageFile: the global file has another name
SimpleFileName == "copilot-memory.json"

getStorageFile(root) ==
    IF root # Undefined THEN <<root, FileName>>
    ELSE <<GlobalStoragePath, SimpleFileName>>

SimplePaths == {getStorageFile(r) : r \in Roots}

\* the value of storageFile before activate() has run
NotActivated == <<>>

-----------------------------------------------------------------------------
(* MongoService and the remote collection *)

\* the retryConfig that RuleManager.connectToMongoDB passes to getInstance,
\* which is also the constructor's default
ManagerRetryConfig ==
    [maxRetries |-> MaxRetries, retryDelayMs |-> RetryDelayMs,
     exponentialBackoff |-> TRUE]

\* retryConfig arguments of other callers of getInstance
RetryConfigs ==
    [maxRetries : 1..MaxRetries, retryDelayMs : {RetryDelayMs, 250},
     exponentialBackoff : BOOLEAN]

\* No MongoService: `instance` is the static MongoService.instance, `held`
\* is RuleManager.mongoService.  attempt, lastError and slept are the
\* position of connectWithRetry (its loop counter, its lastError as the
\* number of the attempt that raised it, the delays it has slept), thrown
\* is the lastError carried by the error it threw, and running counts the
\* connectWithRetry calls that have not settled.
NoService ==
    [held |-> FALSE, instance |-> FALSE, retryConfig |-> ManagerRetryConfig,
     connection |-> "null", readyState |-> 0,
     isConnecting |-> FALSE, connectionPromise |-> "null",
     attempt |-> 0, lastError |-> 0, slept |-> <<>>, thrown |-> 0,
     running |-> 0]

\* new MongoService(config, retryConfig)
newService(retryConfig) ==
    [NoService EXCEPT !.instance = TRUE, !.retryConfig = retryConfig]

\* MongoService.getInstance(config, retryConfig) called on the service svc
getInstanceOf(svc, retryConfig) ==
    IF svc.instance THEN svc ELSE newService(retryConfig)

calculateRetryDelayFromAttempt(svc, attempt) ==
    IF svc.retryConfig.exponentialBackoff
    THEN svc.retryConfig.retryDelayMs * 2 ^ attempt
    ELSE svc.retryConfig.retryDelayMs

\* calculateRetryDelay(attempt)
calculateRetryDelay(svc, attempt) ==
    IF svc.retryConfig.exponentialBackoff
    THEN svc.retryConfig.retryDelayMs * 2 ^ (attempt - 1)
    ELSE svc.retryConfig.retryDelayMs

\* connect(), first test: a ready connection is returned as it is
hasReadyConnection(svc) == svc.connection # "null" /\ svc.readyState = 1

joinsAttemptNever(svc) == FALSE

\* connect(), second test: the promise of the loop in flight is returned
joinsAttempt(svc) == svc.isConnecting /\ svc.connectionPromise # "null"

\* connect() lines 88-89 and connectWithRetry up to its first await
startLoop(svc) ==
    [svc EXCEPT !.isConnecting = TRUE, !.connectionPromise = "pending",
                !.attempt = 1, !.lastError = 0, !.slept = <<>>,
                !.thrown = 0, !.running = @ + 1]

hasRetriesLeftOneMore(svc) == svc.attempt <= svc.retryConfig.maxRetries

\* attempt < this.retryConfig.maxRetries
hasRetriesLeft(svc) == svc.attempt < svc.retryConfig.maxRetries

\* an attempt succeeded: connectWithRetry returns the connection, connect()
\* stores it and runs its finally block
attemptSucceeded(svc) ==
    [svc EXCEPT !.connection = "conn", !.readyState = 1,
                !.isConnecting = FALSE, !.connectionPromise = "null",
                !.running = @ - 1]

\* an attempt failed: the catch block of connectWithRetry, then either the
\* sleep and the next iteration, or the throw after the loop and the finally
\* block of connect()
attemptFailed(svc) ==
    IF hasRetriesLeft(svc)
    THEN [svc EXCEPT !.lastError = svc.attempt,
                     !.slept = Append(@, calculateRetryDelay(svc, svc.attempt)),
                     !.attempt = @ + 1]
    ELSE [svc EXCEPT !.lastError = svc.attempt,
                     !.thrown = svc.attempt,
                     !.isConnecting = FALSE, !.connectionPromise = "null",
                     !.running = @ - 1]

isConnectedWhenHeld == mongoService.held

\* this.mongoService?.isConnected()
isConnected ==
    /\ mongoService.held
    /\ mongoService.connection # "null"
    /\ mongoService.readyState = 1

RECURSIVE sortByCreatedAtDesc(_)
sortByCreatedAtDesc(docs) ==
    IF docs = <<>> THEN <<>>
    ELSE LET i == CHOOSE i \in 1..Len(docs) :
                    \A j \in 1..Len(docs) :
                        \/ docs[j].createdAt < docs[i].createdAt
                        \/ (docs[j].createdAt = docs[i].createdAt /\ i <= j)
             rest == [k \in 1..(Len(docs) - 1) |->
                        IF k < i THEN docs[k] ELSE docs[k + 1]]
         IN  <<docs[i]>> \o sortByCreatedAtDesc(rest)

\* ruleModel.find({ isActive: true }).sort({ createdAt: -1 })
findActive == sortByCreatedAtDesc(SelectSeq(remote, LAMBDA d : d.isActive))

\* getConnectionInfo()
getConnectionInfo ==
    [isMongoConnected |-> isConnected,
     fallbackEnabled  |-> fallbackToLocal,
     totalRules       |-> Len(rules)]

-----------------------------------------------------------------------------
(* Call records *)

NoRule ==
    [ruleId |-> 0, ruleText |-> <<>>, scope |-> Undefined,
     languageScope |-> Undefined, projectPath |-> Undefined,
     createdAt |-> 0, updatedAt |-> 0, isActive |-> FALSE]

\* a value a call resolves to or an event carries: a rule id, or undefined
Value(v) == [defined |-> TRUE, value |-> v]
UndefinedValue == [defined |-> FALSE, value |-> 0]

\* no listener has been called
NoEvents == [l \in Listeners |-> <<>>]

\* an empty Map of custom scopes
NoScopes == [n \in {} |-> Undefined]

\* what is recorded of a call: its arguments, the list and the registry
\* before it, the writes it made, how it ended, what it resolved to
\* (returned, answer) and the events it delivered (heard) to the listeners
\* subscribed when it emitted them; for a command, how often it called
\* RuleManager.addRule (managerCalls), the message it showed, the level it
\* logged at, and whether its promise rejected (threw); for the command of
\* registerCommands, where initialize() stood when the command ran (during)
\* and the rules the local file held then (fileBefore)
NoCall ==
    [op |-> "none", via |-> "none", text |-> <<>>, scope |-> Undefined,
     languageScope |-> Undefined, projectPath |-> Undefined,
     ruleId |-> 0, rule |-> NoRule,
     outcome |-> "none",
     before |-> <<>>, existed |-> FALSE,
     remoteWrite |-> "none", localWrite |-> "none",
     returned |-> UndefinedValue, answer |-> "none",
     heard |-> NoEvents, listeners |-> {},
     registry |-> NoScopes, validator |-> Undefined,
     service |-> NoService,
     managerCalls |-> 0, shown |-> "none", logged |-> "none",
     threw |-> FALSE,
     during |-> "none", fileBefore |-> <<>>]

\* no holder has called connect()
NoConnectCall ==
    [state |-> "none", how |-> "none", connection |-> "null", error |-> 0]

NoConnectCalls == [c \in Callers |-> NoConnectCall]

NoPrevious == [path |-> <<>>, rules |-> <<>>]

-----------------------------------------------------------------------------
(* Construction *)

Init ==
    /\ workspaceRoot \in Roots
    /\ mongodbUri \in Uris
    /\ fallbackToLocal \in BOOLEAN
    /\ maxRulesPerScope \in RuleLimits
    /\ localFilePath = PathOf(workspaceRoot)
    /\ rules = <<>>
    /\ mongoService = NoService
    /\ connectCalls = NoConnectCalls
    /\ ruleModel = FALSE
    /\ initPc = "new"
    /\ loadedFrom = "none"
    /\ findResult = "none"
    /\ files = [p \in Paths \cup SimplePaths |-> NoFile]
    /\ remote = <<>>
    /\ inflight = {}
    /\ last = NoCall
    /\ previous = NoPrevious
    /\ nextId = 1
    /\ clock = 1001
    /\ customScopes = NoScopes
    /\ changeListeners = {}
    /\ simpleRules = <<>>
    /\ storageFile = NotActivated

\* A new extension-host process, opened on the folder `root`: the RuleManager
\* constructor runs again and the static MongoService instance is gone; the
\* user settings, the disk and the database persist.
NewSession(root) ==
    /\ initPc \in {"ready", "failed"}
    /\ inflight = {}
    /\ workspaceRoot' = root
    /\ localFilePath' = PathOf(root)
    /\ rules' = <<>>
    /\ mongoService' = NoService
    /\ ruleModel' = FALSE
    /\ initPc' = "new"
    /\ loadedFrom' = "none"
    /\ findResult' = "none"
    /\ last' = NoCall
    /\ previous' = IF ~mongoService.held /\ last.op = "addRule"
                       /\ last.outcome = "ok"
                    THEN [path |-> localFilePath, rules |-> rules]
                    ELSE NoPrevious
    /\ customScopes' = NoScopes
    /\ changeListeners' = {}
    /\ UNCHANGED <<mongodbUri, fallbackToLocal, maxRulesPerScope, connectCalls, files, remote, inflight,
                   nextId, clock, simpleVars>>

-----------------------------------------------------------------------------
(* RuleManager: loading and saving *)

\* loadRulesFromLocal: a missing file, a failed read or a failed parse all
\* leave an empty list
loadRulesFromLocal(readOk) ==
    LET f == files[localFilePath]
    IN  /\ rules' = IF f.exists /\ readOk THEN parse(f.data) ELSE <<>>
        /\ loadedFrom' = IF f.exists /\ ~readOk THEN "localReadFailed"
                         ELSE "local"

saveRulesToLocalStale(rs, writeOk) ==
    files' = IF writeOk
             THEN [files EXCEPT ![localFilePath] =
                      [exists |-> TRUE, data |-> stringify(rules)]]
             ELSE files

\* saveRulesToLocal: whole-file replace with the list rs, or an exception;
\* it has no await, so from the change of the list to the end of the write
\* a call on the local backend is one uninterrupted run
saveRulesToLocal(rs, writeOk) ==
    files' = IF writeOk
             THEN [files EXCEPT ![localFilePath] =
                      [exists |-> TRUE, data |-> stringify(rs)]]
             ELSE files

\* the mapping of loadRulesFromMongo
fromMongo(docs) ==
    [i \in 1..Len(docs) |-> [k \in RuleKeys |-> docs[i][k]]]

-----------------------------------------------------------------------------
(* RuleManager.initialize *)

throwsWhenConnectFailsNever == FALSE

\* line 233: if (!this.fallbackToLocal) throw
throwsWhenConnectFails == ~fallbackToLocal

\* initialize() up to its first await: with a remote URI, getInstance and
\* the call of connect(); otherwise the local load
InitializeStart(readOk) ==
    /\ initPc = "new"
    /\ IF mongodbUri # Undefined /\ mongodbUri # DefaultUri
       THEN LET svc == [getInstanceOf(mongoService, ManagerRetryConfig)
                           EXCEPT !.held = TRUE]
            IN  /\ mongoService' = IF hasReadyConnection(svc) \/ joinsAttempt(svc)
                                   THEN svc ELSE startLoop(svc)
                /\ ruleModel' = hasReadyConnection(svc)
                /\ initPc' = IF hasReadyConnection(svc) THEN "loadingMongo"
                             ELSE "connecting"
                /\ UNCHANGED <<rules, loadedFrom>>
       ELSE /\ loadRulesFromLocal(readOk)
            /\ initPc' = "ready"
            /\ UNCHANGED <<mongoService, ruleModel>>
    /\ UNCHANGED <<apiVars, simpleVars, workspaceRoot, mongodbUri, fallbackToLocal, maxRulesPerScope, connectCalls, localFilePath,
                   files, remote, inflight, last, previous,
                   nextId, clock,
                   findResult>>

\* one iteration of MongoService.connectWithRetry and, when connect() settles,
\* the rest of connectToMongoDB and of initialize up to its next await
\* what the callers awaiting the promise of connect() get when it settles
settleConnectCalls(svc, ok) ==
    [c \in Callers |->
        IF connectCalls[c].state # "awaiting" THEN connectCalls[c]
        ELSE IF ok
        THEN [connectCalls[c] EXCEPT !.state = "returned",
                                     !.connection = svc.connection]
        ELSE [connectCalls[c] EXCEPT !.state = "threw",
                                     !.error = svc.thrown]]

ConnectAttempt(ok, readOk) ==
    LET svc == IF ok THEN attemptSucceeded(mongoService)
               ELSE attemptFailed(mongoService)
        settles == ~svc.isConnecting
    IN
    /\ mongoService.isConnecting
    /\ mongoService' = svc
    /\ connectCalls' = IF settles THEN settleConnectCalls(svc, ok)
                       ELSE connectCalls
    /\ IF initPc # "connecting" \/ ~settles
       THEN UNCHANGED <<ruleModel, initPc, rules, loadedFrom>>
       ELSE IF ok
       THEN /\ ruleModel' = TRUE
            /\ initPc' = "loadingMongo"
            /\ UNCHANGED <<rules, loadedFrom>>
       ELSE /\ UNCHANGED ruleModel
            /\ IF throwsWhenConnectFails
               THEN /\ initPc' = "failed"
                    /\ UNCHANGED <<rules, loadedFrom>>
               ELSE /\ loadRulesFromLocal(readOk)
                    /\ initPc' = "ready"
    /\ UNCHANGED <<apiVars, simpleVars, workspaceRoot, mongodbUri, fallbackToLocal, maxRulesPerScope, localFilePath,
                   files, remote, inflight, last, previous, nextId, clock,
                   findResult>>

\* MongoService.getInstance(config, retryConfig) by a caller other than the
\* rule manager, when there is no instance yet
getInstance(retryConfig) ==
    /\ ~mongoService.instance
    /\ mongoService' = newService(retryConfig)
    /\ UNCHANGED <<apiVars, simpleVars, workspaceRoot, mongodbUri, fallbackToLocal, maxRulesPerScope, connectCalls, localFilePath,
                   rules, ruleModel, initPc, loadedFrom, files, remote,
                   inflight, last, previous, nextId, clock,
                   findResult>>

\* MongoService.connect() called by `caller`, up to its await or its return
connect(caller) ==
    LET call == [NoConnectCall EXCEPT !.state = "awaiting"]
    IN
    /\ mongoService.instance
    /\ connectCalls[caller].state # "awaiting"
    /\ IF hasReadyConnection(mongoService)
       THEN /\ connectCalls' = [connectCalls EXCEPT ![caller] =
                   [call EXCEPT !.state = "returned", !.how = "existing",
                                !.connection = mongoService.connection]]
            /\ UNCHANGED mongoService
       ELSE IF joinsAttempt(mongoService)
       THEN /\ connectCalls' = [connectCalls EXCEPT ![caller] =
                   [call EXCEPT !.how = "joined"]]
            /\ UNCHANGED mongoService
       ELSE /\ connectCalls' = [connectCalls EXCEPT ![caller] =
                   [call EXCEPT !.how = "started"]]
            /\ mongoService' = startLoop(mongoService)
    /\ UNCHANGED <<apiVars, simpleVars, workspaceRoot, mongodbUri, fallbackToLocal, maxRulesPerScope, localFilePath,
                   rules, ruleModel, initPc, loadedFrom, files, remote,
                   inflight, last, previous, nextId, clock,
                   findResult>>

\* loadRulesFromMongo after its await on find()
MongoFindDone(ok, readOk) ==
    /\ initPc = "loadingMongo"
    /\ findResult' = IF ok THEN "ok" ELSE "failed"
    /\ IF ok
       THEN /\ rules' = fromMongo(findActive)
            /\ loadedFrom' = "mongo"
            /\ initPc' = "ready"
       ELSE IF fallbackToLocal
       THEN /\ loadRulesFromLocal(readOk)
            /\ initPc' = "ready"
       ELSE /\ initPc' = "failed"
            /\ UNCHANGED <<rules, loadedFrom>>
    /\ UNCHANGED <<apiVars, simpleVars, workspaceRoot, mongodbUri, fallbackToLocal, maxRulesPerScope, connectCalls, localFilePath,
                   mongoService, ruleModel, files, remote, inflight, last,
                   previous, nextId, clock>>

\* mongoose connection events 'disconnected' and 'reconnected'
ConnectionLost ==
    /\ mongoService.connection # "null"
    /\ mongoService.readyState = 1
    /\ mongoService' = [mongoService EXCEPT !.readyState = 0]
    /\ UNCHANGED <<apiVars, simpleVars, workspaceRoot, mongodbUri, fallbackToLocal, maxRulesPerScope, connectCalls, localFilePath,
                   rules, ruleModel, initPc, loadedFrom, files, remote,
                   inflight, last, previous, nextId, clock,
                   findResult>>

ConnectionRestored ==
    /\ mongoService.connection # "null"
    /\ mongoService.readyState = 0
    /\ mongoService' = [mongoService EXCEPT !.readyState = 1]
    /\ UNCHANGED <<apiVars, simpleVars, workspaceRoot, mongodbUri, fallbackToLocal, maxRulesPerScope, connectCalls, localFilePath,
                   rules, ruleModel, initPc, loadedFrom, files, remote,
                   inflight, last, previous, nextId, clock,
                   findResult>>

-----------------------------------------------------------------------------
(* RuleManager: queries *)

\* getRules(scope?, languageId?)
getRules(scope, languageId) ==
    LET active == SelectSeq(rules, LAMBDA r : r.isActive)
        byScope == IF scope # Undefined
                   THEN SelectSeq(active, LAMBDA r : r.scope = scope)
                   ELSE active
        byLanguage == IF languageId # Undefined
                      THEN SelectSeq(byScope, LAMBDA r :
                               r.scope # "language" \/ r.languageScope = languageId)
                      ELSE byScope
        currentProjectPath == workspaceRoot
    IN  IF currentProjectPath # Undefined
        THEN SelectSeq(byLanguage, LAMBDA r :
                 r.scope # "project" \/ r.projectPath = currentProjectPath)
        ELSE byLanguage

\* getActiveRulesForContext(languageId?)
getActiveRulesForContext(languageId) ==
    LET globalRules == getRules("global", Undefined)
        projectRules == getRules("project", Undefined)
        languageRules == IF languageId # Undefined
                         THEN getRules("language", languageId)
                         ELSE <<>>
        allRules == globalRules \o projectRules \o languageRules
    IN  [i \in 1..Len(allRules) |-> allRules[i].ruleText]

-----------------------------------------------------------------------------
(* ExtensionAPI: what addRule and removeRule do once the manager's promise  *)
(* has settled                                                              *)

\* emitRuleChangeEvent(type, ruleId): the calls made to the listeners
emitRuleChangeEvent(type, ruleId) ==
    LET event == [type |-> type, ruleId |-> ruleId, timestamp |-> clock]
    IN  [l \in Listeners |->
            IF l \in changeListeners THEN <<event>> ELSE <<>>]

\* ExtensionAPI.addRule from `const ruleId = await this.ruleManager.addRule`
\* on: RuleManager.addRule is declared Promise<void>, so the await yields
\* undefined; a rejection propagates to the caller
afterAddRule(call) ==
    LET ruleId == UndefinedValue
    IN  IF call.outcome = "ok"
        THEN [call EXCEPT !.returned = ruleId,
                          !.listeners = changeListeners,
                          !.heard = emitRuleChangeEvent("added", ruleId)]
        ELSE call

\* ExtensionAPI.removeRule, the try block and its catch
afterRemoveRule(call) ==
    IF call.outcome = "ok"
    THEN [call EXCEPT !.answer = "true",
                      !.listeners = changeListeners,
                      !.heard = emitRuleChangeEvent("removed",
                                                    Value(call.ruleId))]
    ELSE [call EXCEPT !.answer = "false"]

afterExecuteRethrows(call) ==
    IF call.outcome = "ok"
    THEN [call EXCEPT !.logged = "info", !.shown = RuleAddedMessage]
    ELSE [call EXCEPT !.threw = TRUE]

\* AddRuleCommandHandler.execute from `await this.ruleManager.addRule` on:
\* Logger.info and the success message, or the catch block, which logs and
\* shows the error and does not rethrow
afterExecute(call) ==
    IF call.outcome = "ok"
    THEN [call EXCEPT !.logged = "info", !.shown = RuleAddedMessage]
    ELSE [call EXCEPT !.logged = "error", !.shown = FailedToAddMessage]

\* the call as its caller sees it when the manager's promise has settled
settled(call) ==
    IF call.via = "execute" THEN afterExecute(call)
    ELSE IF call.via # "api" THEN call
    ELSE IF call.op = "addRule" THEN afterAddRule(call)
    ELSE afterRemoveRule(call)

-----------------------------------------------------------------------------
(* RuleManager.addRule and AddRuleCommandHandler.execute *)

\* the record built by addRule (lines 349-358)
newRule(ruleText, scope, languageScope) ==
    [ruleId |-> nextId, ruleText |-> ruleText, scope |-> scope,
     languageScope |-> languageScope,
     projectPath |-> IF scope = "project" THEN workspaceRoot ELSE Undefined,
     createdAt |-> clock, updatedAt |-> clock, isActive |-> TRUE]

\* the document mongoose stores for create(rule): with timestamps enabled a
\* new document's updatedAt is its createdAt
toDocument(rule) == [rule EXCEPT !.updatedAt = rule.createdAt]

hasText(rs, t) == \E i \in 1..Len(rs) : rs[i].ruleText = t
hasId(rs, id) == \E i \in 1..Len(rs) : rs[i].ruleId = id

fallsBackOnWriteFailureNever == FALSE

\* lines 368 and 388: if (this.fallbackToLocal) saveRulesToLocal else throw
fallsBackOnWriteFailure == fallbackToLocal

Returned(call, outcome) == [call EXCEPT !.outcome = outcome]

\* RuleManager.addRule(ruleText, scope, languageScope) up to its first await
addRule(ruleText, scope, languageScope, writeOk, call) ==
    LET rule == newRule(ruleText, scope, languageScope)
        started == [call EXCEPT !.ruleId = rule.ruleId, !.rule = rule,
                                !.managerCalls = @ + 1]
    IN  /\ nextId <= MaxAdds
        /\ rules' = Append(rules, rule)
        /\ nextId' = nextId + 1
        /\ clock' = clock + 1
        /\ IF isConnected /\ ruleModel
           THEN /\ inflight' = inflight \cup {started}
                /\ last' = NoCall
                /\ UNCHANGED files
           ELSE /\ saveRulesToLocal(rules', writeOk)
                /\ last' = settled([started EXCEPT
                              !.localWrite = IF writeOk THEN "ok" ELSE "failed",
                              !.outcome = IF writeOk THEN "ok" ELSE "error"])
                /\ UNCHANGED inflight
        /\ UNCHANGED <<apiVars, simpleVars, workspaceRoot, mongodbUri, fallbackToLocal, maxRulesPerScope, connectCalls,
                       localFilePath, mongoService, ruleModel, initPc,
                       loadedFrom, findResult, remote, previous>>

\* a command that returns before it reaches the rule manager
returnsEarly(call, outcome) ==
    /\ last' = Returned(call, outcome)
    /\ UNCHANGED <<apiVars, simpleVars, workspaceRoot, mongodbUri, fallbackToLocal, maxRulesPerScope, connectCalls, localFilePath,
                   rules, mongoService, ruleModel, initPc, loadedFrom,
                   findResult, files, remote, inflight, previous, nextId,
                   clock>>

\* AddRuleCommandHandler.execute: the prompts are answered with text, scope
\* and language; Undefined is a dismissed prompt, and a prompt that is not
\* reached has no answer
execute(text, scope, language, writeOk) ==
    LET textAccepted == text # <<>> /\ validateRuleText(text).isValid
        call == [NoCall EXCEPT !.op = "addRule", !.via = "execute",
                    !.text = text, !.scope = scope,
                    !.languageScope = language, !.before = rules]
    IN
    /\ textAccepted \/ scope = Undefined
    /\ scope = "language" \/ language = Undefined
    /\ IF text = <<>>
       THEN returnsEarly(call, "cancelled")
       ELSE IF ~validateRuleText(text).isValid
       THEN returnsEarly([call EXCEPT !.shown = validateRuleText(text).error],
                         "invalid")
       ELSE IF scope = Undefined \/ (scope = "language" /\ language = Undefined)
       THEN returnsEarly(call, "cancelled")
       ELSE addRule(sanitizeInput(text), scope,
                    IF scope = "language" THEN language ELSE Undefined,
                    writeOk, call)

\* the copilotMemory.addRule command that registerCommands binds to the rule
\* manager: the text and the scope as the prompts returned them
addRuleCommand(text, scope, writeOk) ==
    LET file == files[localFilePath]
        call == [NoCall EXCEPT !.op = "addRule", !.via = "addRuleCommand",
                    !.text = text, !.scope = scope, !.before = rules,
                    !.during = initPc,
                    !.fileBefore = IF file.exists THEN parse(file.data)
                                   ELSE <<>>]
    IN
    /\ text # <<>> \/ scope = Undefined
    /\ IF text = <<>> \/ scope = Undefined
       THEN returnsEarly(call, "cancelled")
       ELSE addRule(text, scope, Undefined, writeOk, call)

\* addRule after its await on ruleModel.create(rule)
RemoteCreateDone(call, ok, writeOk) ==
    /\ call \in inflight
    /\ call.op = "addRule"
    /\ inflight' = inflight \ {call}
    /\ IF ok
       THEN /\ remote' = Append(remote, toDocument(call.rule))
            /\ UNCHANGED files
            /\ last' = settled([call EXCEPT !.remoteWrite = "ok",
                                              !.outcome = "ok"])
       ELSE /\ UNCHANGED remote
            /\ IF fallsBackOnWriteFailure
               THEN /\ saveRulesToLocal(rules, writeOk)
                    /\ last' = settled([call EXCEPT !.remoteWrite = "failed",
                                  !.localWrite = IF writeOk THEN "ok" ELSE "failed",
                                  !.outcome = IF writeOk THEN "ok" ELSE "error"])
               ELSE /\ UNCHANGED files
                    /\ last' = settled([call EXCEPT !.remoteWrite = "failed",
                                                      !.outcome = "error"])
    /\ UNCHANGED <<apiVars, simpleVars, workspaceRoot, mongodbUri, fallbackToLocal, maxRulesPerScope, connectCalls, localFilePath,
                   rules, mongoService, ruleModel, initPc, loadedFrom,
                   previous, nextId, clock,
                   findResult>>

-----------------------------------------------------------------------------
(* RuleManager.removeRule *)

without(rs, ruleId) == SelectSeq(rs, LAMBDA r : r.ruleId # ruleId)

removeRule(ruleId, writeOk, via) ==
    LET call == [NoCall EXCEPT !.op = "removeRule", !.via = via,
                    !.ruleId = ruleId,
                    !.before = rules, !.existed = hasId(rules, ruleId)]
    IN  /\ rules' = without(rules, ruleId)
        /\ IF isConnected /\ ruleModel
           THEN /\ inflight' = inflight \cup {call}
                /\ last' = NoCall
                /\ UNCHANGED files
           ELSE /\ saveRulesToLocal(rules', writeOk)
                /\ last' = settled([call EXCEPT
                              !.localWrite = IF writeOk THEN "ok" ELSE "failed",
                              !.outcome = IF writeOk THEN "ok" ELSE "error"])
                /\ UNCHANGED inflight
        /\ UNCHANGED <<apiVars, simpleVars, workspaceRoot, mongodbUri, fallbackToLocal, maxRulesPerScope, connectCalls,
                       localFilePath, mongoService, ruleModel, initPc,
                       loadedFrom, remote, previous, nextId, clock,
                   findResult>>

\* removeRule after its await on ruleModel.findOneAndDelete({ ruleId })
RemoteDeleteDone(call, ok, writeOk) ==
    /\ call \in inflight
    /\ call.op = "removeRule"
    /\ inflight' = inflight \ {call}
    /\ IF ok
       THEN /\ remote' = without(remote, call.ruleId)
            /\ UNCHANGED files
            /\ last' = settled([call EXCEPT !.remoteWrite = "ok",
                                              !.outcome = "ok"])
       ELSE /\ UNCHANGED remote
            /\ IF fallsBackOnWriteFailure
               THEN /\ saveRulesToLocal(rules, writeOk)
                    /\ last' = settled([call EXCEPT !.remoteWrite = "failed",
                                  !.localWrite = IF writeOk THEN "ok" ELSE "failed",
                                  !.outcome = IF writeOk THEN "ok" ELSE "error"])
               ELSE /\ UNCHANGED files
                    /\ last' = settled([call EXCEPT !.remoteWrite = "failed",
                                                      !.outcome = "error"])
    /\ UNCHANGED <<apiVars, simpleVars, workspaceRoot, mongodbUri, fallbackToLocal, maxRulesPerScope, connectCalls, localFilePath,
                   rules, mongoService, ruleModel, initPc, loadedFrom,
                   previous, nextId, clock,
                   findResult>>

-----------------------------------------------------------------------------
(* RuleManager.dispose *)

\* MongoService.disconnect(): close() on the connection held; the field is
\* cleared only when close() resolves, and a rejection is logged
disconnect(svc, closeOk) ==
    IF svc.connection # "null" /\ closeOk
    THEN [svc EXCEPT !.connection = "null", !.readyState = 0]
    ELSE svc

\* RuleManager.dispose(): disconnect() when a service is held; every error
\* is caught and logged.  The call records the service as it found it.
dispose(closeOk) ==
    LET call == [NoCall EXCEPT !.op = "dispose", !.via = "manager",
                    !.before = rules, !.service = mongoService]
    IN  /\ inflight = {}
        /\ mongoService' = IF mongoService.held
                           THEN disconnect(mongoService, closeOk)
                           ELSE mongoService
        /\ last' = Returned(call, "ok")
        /\ UNCHANGED <<apiVars, simpleVars, workspaceRoot, mongodbUri, fallbackToLocal, maxRulesPerScope, connectCalls, localFilePath,
                       rules, ruleModel, initPc, loadedFrom, findResult,
                       files, remote, inflight, previous, nextId, clock>>

-----------------------------------------------------------------------------
(* ExtensionAPI *)

\* the options argument of ExtensionAPI.addRule
Options(languageScope, projectPath) ==
    [languageScope |-> languageScope, projectPath |-> projectPath]

\* the id argument an API caller passes for "no id": a falsy value
NoId == 0

\* ExtensionAPI.addRule(ruleText, scope, options): the checks that throw, then
\* the call of the manager with ruleText as given and options.languageScope
\* whatever the scope; the manager's addRule has no projectPath parameter
apiAddRule(ruleText, scope, options, writeOk) ==
    LET call == [NoCall EXCEPT !.op = "addRule", !.via = "api",
                    !.text = ruleText, !.scope = scope,
                    !.languageScope = options.languageScope,
                    !.projectPath = options.projectPath,
                    !.before = rules]
    IN  IF ruleText = <<>> \/ Len(trim(ruleText)) = 0
        THEN returnsEarly(call, "invalid")
        ELSE IF Len(ruleText) > MaxRuleTextLength
        THEN returnsEarly(call, "invalid")
        ELSE IF scope = "language" /\ options.languageScope = Undefined
        THEN returnsEarly(call, "missingLanguageScope")
        ELSE IF /\ scope = "project"
                /\ options.projectPath = Undefined
                /\ workspaceRoot = Undefined
        THEN returnsEarly(call, "noWorkspace")
        ELSE addRule(ruleText, scope, options.languageScope, writeOk, call)

\* ExtensionAPI.removeRule(ruleId)
apiRemoveRule(ruleId, writeOk) ==
    IF ruleId = NoId
    THEN returnsEarly([NoCall EXCEPT !.op = "removeRule", !.via = "api",
                          !.ruleId = ruleId, !.before = rules],
                      "missingId")
    ELSE removeRule(ruleId, writeOk, "api")

\* ExtensionAPI.onRuleChanged(listener) with a function: Set.add
onRuleChanged(listener) ==
    /\ changeListeners' = changeListeners \cup {listener}
    /\ UNCHANGED <<workspaceRoot, mongodbUri, fallbackToLocal, maxRulesPerScope, connectCalls, localFilePath,
                   rules, mongoService, ruleModel, initPc, loadedFrom,
                   findResult, files, remote, inflight, last, previous,
                   nextId, clock, customScopes, simpleVars>>

\* dispose() of the vscode.Disposable that onRuleChanged returned
disposeSubscription(listener) ==
    /\ listener \in changeListeners
    /\ changeListeners' = changeListeners \ {listener}
    /\ UNCHANGED <<workspaceRoot, mongodbUri, fallbackToLocal, maxRulesPerScope, connectCalls, localFilePath,
                   rules, mongoService, ruleModel, initPc, loadedFrom,
                   findResult, files, remote, inflight, last, previous,
                   nextId, clock, customScopes, simpleVars>>

\* a validator argument: whether it is a function and, if so, the file
\* paths of the contexts on which it returns true
Validator(isFunction, accepts) ==
    [isFunction |-> isFunction, accepts |-> accepts]

builtInScopesWithoutLanguage == {"global", "project"}

\* line 308: ['global', 'project', 'language']
builtInScopes == {"global", "project", "language"}

\* ExtensionAPI.registerCustomScope(scopeName, validator); the empty name is
\* the falsy name
registerCustomScope(scopeName, validator) ==
    LET call == [NoCall EXCEPT !.op = "registerCustomScope",
                    !.via = "api", !.scope = scopeName,
                    !.validator = validator, !.registry = customScopes]
        outcome == IF scopeName = "" THEN "invalidName"
                   ELSE IF ~validator.isFunction THEN "invalidValidator"
                   ELSE IF scopeName \in builtInScopes THEN "reservedName"
                   ELSE "ok"
    IN  /\ last' = Returned(call, outcome)
        /\ customScopes' =
               IF outcome = "ok"
               THEN [n \in (DOMAIN customScopes) \cup {scopeName} |->
                        IF n = scopeName
                        THEN [name |-> scopeName, validator |-> validator]
                        ELSE customScopes[n]]
               ELSE customScopes
        /\ UNCHANGED <<workspaceRoot, mongodbUri, fallbackToLocal, maxRulesPerScope, connectCalls,
                       localFilePath, rules, mongoService, ruleModel, initPc,
                       loadedFrom, findResult, files, remote, inflight,
                       previous, nextId, clock, changeListeners, simpleVars>>

\* ExtensionAPI.validateCustomScopeContext(scopeName, context)
validateCustomScopeContext(scopeName, context) ==
    IF scopeName \notin DOMAIN customScopes THEN FALSE
    ELSE context.filePath \in customScopes[scopeName].validator.accepts

-----------------------------------------------------------------------------
(* extension.ts: the simple storage and its commands *)

\* loadRules: `rules` is left alone when there is no file and emptied when
\* the read or the parse fails; every member of a SimpleRule is a string,
\* which JSON.stringify and JSON.parse give back unchanged
loadRules(path, readOk) ==
    IF ~files[path].exists THEN <<>>
    ELSE IF readOk THEN files[path].data
    ELSE <<>>

\* saveRules: whole-file replace; a failure is logged and swallowed
saveRules(rs, writeOk) ==
    files' = IF writeOk
             THEN [files EXCEPT ![storageFile] =
                      [exists |-> TRUE, data |-> rs]]
             ELSE files

\* a new extension host runs activate(): the module-level `rules` is the
\* empty array again, storageFile is set and loadRules() runs
activate(readOk) ==
    /\ storageFile' = getStorageFile(workspaceRoot)
    /\ simpleRules' = loadRules(storageFile', readOk)
    /\ UNCHANGED <<apiVars, workspaceRoot, mongodbUri, fallbackToLocal, maxRulesPerScope, connectCalls,
                   localFilePath, rules, mongoService, ruleModel, initPc,
                   loadedFrom, findResult, files, remote, inflight, last,
                   previous, nextId, clock>>

\* the copilotMemory.addRule command of extension.ts, both prompts answered;
\* `now` is what Date.now() returns, which is the time of the previous
\* reading when less than a millisecond has passed; the id is its decimal
\* string, one for each number
simpleAddRule(text, scope, now, writeOk) ==
    LET simpleRule == [id |-> now, text |-> text, scope |-> scope,
                       createdAt |-> toISOString(now)]
    IN  /\ storageFile # NotActivated
        /\ text # <<>> /\ scope # Undefined
        /\ Len(simpleRules) < MaxAdds
        /\ now \in {clock, clock + 1}
        /\ now <= 1001 + MaxAdds
        /\ clock' = now
        /\ simpleRules' = Append(simpleRules, simpleRule)
        /\ saveRules(simpleRules', writeOk)
        /\ UNCHANGED <<apiVars, workspaceRoot, mongodbUri, fallbackToLocal, maxRulesPerScope, connectCalls,
                       localFilePath, rules, mongoService, ruleModel, initPc,
                       loadedFrom, findResult, remote, inflight, last,
                       previous, nextId, storageFile>>

\* the copilotMemory.removeRule command of extension.ts: the user picks the
\* item of the rule at position `selected`
simpleRemoveRule(selected, writeOk) ==
    /\ storageFile # NotActivated
    /\ selected \in 1..Len(simpleRules)
    /\ simpleRules' = SelectSeq(simpleRules,
                                LAMBDA r : r.id # simpleRules[selected].id)
    /\ saveRules(simpleRules', writeOk)
    /\ UNCHANGED <<apiVars, workspaceRoot, mongodbUri, fallbackToLocal, maxRulesPerScope, connectCalls,
                   localFilePath, rules, mongoService, ruleModel, initPc,
                   loadedFrom, findResult, remote, inflight, last, previous,
                   nextId, clock, storageFile>>

-----------------------------------------------------------------------------
(* The extension as its callers drive it: one call at a time, each awaited *)

\* answers to the two prompts of the simple storage's add-rule command
SimpleAnswers ==
    { Answer(<<"c">>, "global", Undefined),
      Answer(<<"d">>, "global", Undefined),
      Answer(<<"c">>, "language", Undefined) }

\* what callers of the ExtensionAPI pass
ApiCall(text, scope, options) ==
    [text |-> text, scope |-> scope, options |-> options]

ApiCalls ==
    { ApiCall(<<" ">>, "global", Options(Undefined, Undefined)),
      ApiCall(<<"c">>, "global", Options("typescript", Undefined)),
      ApiCall(<<"c">>, "language", Options(Undefined, Undefined)),
      ApiCall(<<"c">>, "project", Options(Undefined, Undefined)),
      ApiCall(<<"t">>, "test-files", Options(Undefined, Undefined)) }

ScopeNames == {"", "global", "project", "language", "test-files"}

FilePaths == {"src/a.test.ts", "src/a.ts"}

Contexts == {[filePath |-> f] : f \in FilePaths}

Validators ==
    { Validator(TRUE, {"src/a.test.ts"}),
      Validator(FALSE, {}) }

\* answers to the two prompts of the copilotMemory.addRule command
DirectAnswers ==
    { Answer(<<"c">>, Undefined, Undefined),
      Answer(<<"c">>, "language", Undefined) }

Idle == initPc = "ready" /\ inflight = {}

Next ==
    \/ \E root \in Roots : NewSession(root)
    \/ \E readOk \in BOOLEAN : InitializeStart(readOk)
    \/ \E ok \in BOOLEAN, readOk \in BOOLEAN : ConnectAttempt(ok, readOk)
    \/ \E ok \in BOOLEAN, readOk \in BOOLEAN : MongoFindDone(ok, readOk)
    \/ \E retryConfig \in RetryConfigs : getInstance(retryConfig)
    \/ \E caller \in Callers : connect(caller)
    \/ ConnectionLost
    \/ ConnectionRestored
    \/ \E closeOk \in BOOLEAN : initPc # "new" /\ dispose(closeOk)
    \/ \E a \in CommandAnswers, writeOk \in BOOLEAN :
           Idle /\ execute(a.text, a.scope, a.language, writeOk)
    \/ \E a \in DirectAnswers, writeOk \in BOOLEAN :
           Idle /\ addRuleCommand(a.text, a.scope, writeOk)
    \/ \E call \in inflight, ok \in BOOLEAN, writeOk \in BOOLEAN :
           RemoteCreateDone(call, ok, writeOk)
    \/ \E ruleId \in RuleIds, writeOk \in BOOLEAN :
           Idle /\ removeRule(ruleId, writeOk, "manager")
    \/ \E call \in inflight, ok \in BOOLEAN, writeOk \in BOOLEAN :
           RemoteDeleteDone(call, ok, writeOk)
    \/ \E c \in ApiCalls, writeOk \in BOOLEAN :
           Idle /\ apiAddRule(c.text, c.scope, c.options, writeOk)
    \/ \E ruleId \in RuleIds \cup {NoId}, writeOk \in BOOLEAN :
           Idle /\ apiRemoveRule(ruleId, writeOk)
    \/ \E listener \in Listeners : onRuleChanged(listener)
    \/ \E listener \in Listeners : disposeSubscription(listener)
    \/ \E n \in ScopeNames, v \in Validators : registerCustomScope(n, v)
    \/ \E readOk \in BOOLEAN : activate(readOk)
    \/ \E a \in SimpleAnswers, now \in {clock, clock + 1},
          writeOk \in BOOLEAN :
           simpleAddRule(a.text, a.scope, now, writeOk)
    \/ \E selected \in 1..MaxAdds, writeOk \in BOOLEAN :
           simpleRemoveRule(selected, writeOk)

Spec == Init /\ [][Next]_vars

-----------------------------------------------------------------------------
(* The local backend: the documented default URI is configured, so          *)
(* initialize() never tries the remote                                      *)

SessionRoots == {Undefined, "/a"}

LocalAnswers == { a \in CommandAnswers : a.scope # "project" }

InitLocal ==
    /\ Init
    /\ workspaceRoot \in SessionRoots
    /\ mongodbUri = DefaultUri
    /\ fallbackToLocal = TRUE
    /\ maxRulesPerScope = DefaultMaxRulesPerScope

NextLocal ==
    \/ \E root \in SessionRoots : NewSession(root)
    \/ \E readOk \in BOOLEAN : InitializeStart(readOk)
    \/ \E a \in LocalAnswers, writeOk \in BOOLEAN :
           Idle /\ execute(a.text, a.scope, a.language, writeOk)
    \/ \E a \in DirectAnswers, writeOk \in BOOLEAN :
           Idle /\ addRuleCommand(a.text, a.scope, writeOk)
    \/ \E ruleId \in RuleIds, writeOk \in BOOLEAN :
           Idle /\ removeRule(ruleId, writeOk, "manager")

SpecLocal == InitLocal /\ [][NextLocal]_vars

-----------------------------------------------------------------------------
(* The remote backend: a URI other than the default is configured; rules   *)
(* are loaded and added, none is removed                                    *)

RemoteAnswers ==
    { Answer(<<" ">>, Undefined, Undefined),
      Answer(<<"d">>, "global", Undefined),
      Answer(<<"c">>, "project", Undefined) }

RemoteDirectAnswers ==
    { Answer(<<" ", "a", " ", "\t", " ", "b", "\n">>, "global", Undefined) }

InitRemote ==
    /\ Init
    /\ mongodbUri = CustomUri
    /\ workspaceRoot \in SessionRoots
    /\ maxRulesPerScope = DefaultMaxRulesPerScope

NextRemote ==
    \/ \E root \in SessionRoots : NewSession(root)
    \/ \E readOk \in BOOLEAN : InitializeStart(readOk)
    \/ \E ok \in BOOLEAN, readOk \in BOOLEAN : ConnectAttempt(ok, readOk)
    \/ \E ok \in BOOLEAN, readOk \in BOOLEAN : MongoFindDone(ok, readOk)
    \/ ConnectionLost
    \/ ConnectionRestored
    \/ \E a \in RemoteAnswers, writeOk \in BOOLEAN :
           Idle /\ execute(a.text, a.scope, a.language, writeOk)
    \/ \E a \in RemoteDirectAnswers, writeOk \in BOOLEAN :
           Idle /\ addRuleCommand(a.text, a.scope, writeOk)
    \/ \E call \in inflight, ok \in BOOLEAN, writeOk \in BOOLEAN :
           RemoteCreateDone(call, ok, writeOk)

SpecRemote == InitRemote /\ [][NextRemote]_vars

-----------------------------------------------------------------------------
(* Validation boundaries: one session on the local backend, the add-rule    *)
(* command answered with every text of Texts                                *)

TextAnswers ==
    { Answer(t, s, Undefined) : t \in Texts, s \in {Undefined, "global"} }

DirectTexts ==
    { <<" ", "\t">>,
      <<" ", "a", " ", "\t", " ", "b", "\n">>,
      Rep("x", MaxRuleTextLength + 1) }

DirectTextAnswers == { Answer(t, "global", Undefined) : t \in DirectTexts }

InitTexts ==
    /\ InitLocal
    /\ workspaceRoot = "/a"

NextTexts ==
    \/ \E readOk \in BOOLEAN : InitializeStart(readOk)
    \/ \E a \in TextAnswers, writeOk \in BOOLEAN :
           Idle /\ execute(a.text, a.scope, a.language, writeOk)
    \/ \E a \in DirectTextAnswers, writeOk \in BOOLEAN :
           Idle /\ addRuleCommand(a.text, a.scope, writeOk)
    \/ \E ruleId \in RuleIds, writeOk \in BOOLEAN :
           Idle /\ removeRule(ruleId, writeOk, "manager")

SpecTexts == InitTexts /\ [][NextTexts]_vars

-----------------------------------------------------------------------------
(* The ExtensionAPI over a manager on the local backend, one session        *)

InitApi ==
    /\ InitLocal

NextApi ==
    \/ \E readOk \in BOOLEAN : InitializeStart(readOk)
    \/ \E c \in ApiCalls, writeOk \in BOOLEAN :
           Idle /\ apiAddRule(c.text, c.scope, c.options, writeOk)
    \/ \E ruleId \in RuleIds \cup {NoId}, writeOk \in BOOLEAN :
           Idle /\ apiRemoveRule(ruleId, writeOk)
    \/ \E listener \in Listeners : onRuleChanged(listener)
    \/ \E listener \in Listeners : disposeSubscription(listener)
    \/ \E n \in ScopeNames, v \in Validators : registerCustomScope(n, v)

SpecApi == InitApi /\ [][NextApi]_vars

-----------------------------------------------------------------------------
(* The simple storage of extension.ts on its own                            *)

InitSimple ==
    /\ InitLocal

NextSimple ==
    \/ \E readOk \in BOOLEAN : activate(readOk)
    \/ \E a \in SimpleAnswers, now \in {clock, clock + 1},
          writeOk \in BOOLEAN :
           simpleAddRule(a.text, a.scope, now, writeOk)
    \/ \E selected \in 1..MaxAdds, writeOk \in BOOLEAN :
           simpleRemoveRule(selected, writeOk)

SpecSimple == InitSimple /\ [][NextSimple]_vars

-----------------------------------------------------------------------------
(* The two ways a rule enters the manager, ExtensionAPI.addRule and         *)
(* AddRuleCommandHandler.execute, on the local backend, one session         *)

EntryApiCalls ==
    { ApiCall(<<" ", "a", " ", "\t", " ", "b", "\n">>, "global",
              Options(Undefined, Undefined)),
      ApiCall(Rep("x", MaxRuleTextLength + 1), "global",
              Options(Undefined, Undefined)),
      ApiCall(<<"c">>, "project", Options(Undefined, "/b")),
      ApiCall(<<"c">>, "project", Options(Undefined, Undefined)) }

EntryAnswers ==
    { Answer(<<>>, Undefined, Undefined),
      Answer(<<" ">>, Undefined, Undefined),
      Answer(Rep("x", MaxRuleTextLength + 1), Undefined, Undefined),
      Answer(<<"c">>, Undefined, Undefined),
      Answer(<<"c">>, "language", Undefined),
      Answer(<<" ", "a", " ", "\t", " ", "b", "\n">>, "global", Undefined),
      Answer(<<"c">>, "language", "typescript") }

InitEntry ==
    /\ InitLocal

NextEntry ==
    \/ \E readOk \in BOOLEAN : InitializeStart(readOk)
    \/ \E c \in EntryApiCalls, writeOk \in BOOLEAN :
           Idle /\ apiAddRule(c.text, c.scope, c.options, writeOk)
    \/ \E a \in EntryAnswers, writeOk \in BOOLEAN :
           Idle /\ execute(a.text, a.scope, a.language, writeOk)

SpecEntry == InitEntry /\ [][NextEntry]_vars

-----------------------------------------------------------------------------
(* The rule limit: copilotMemory.maxRulesPerScope set to a small valid      *)
(* value, rules added through the command handler, local backend            *)

LimitAnswers ==
    { Answer(<<"c">>, "global", Undefined),
      Answer(<<"d">>, "global", Undefined),
      Answer(<<"c">>, "project", Undefined),
      Answer(<<"c">>, "language", "typescript") }

InitLimit ==
    /\ Init
    /\ workspaceRoot = "/a"
    /\ mongodbUri = DefaultUri
    /\ fallbackToLocal = TRUE
    /\ maxRulesPerScope \in RuleLimits \ {DefaultMaxRulesPerScope}

NextLimit ==
    \/ \E readOk \in BOOLEAN : InitializeStart(readOk)
    \/ \E a \in LimitAnswers, writeOk \in BOOLEAN :
           Idle /\ execute(a.text, a.scope, a.language, writeOk)
    \/ \E ruleId \in RuleIds, writeOk \in BOOLEAN :
           Idle /\ removeRule(ruleId, writeOk, "manager")

SpecLimit == InitLimit /\ [][NextLimit]_vars

-----------------------------------------------------------------------------
(* The MongoService on its own: callers other than the rule manager create  *)
(* the instance with a retryConfig and call connect(), also while another   *)
(* call is waiting                                                          *)

InitConnect ==
    /\ InitRemote
    /\ workspaceRoot = "/a"
    /\ fallbackToLocal = TRUE

NextConnect ==
    \/ \E retryConfig \in RetryConfigs : getInstance(retryConfig)
    \/ \E caller \in Callers : connect(caller)
    \/ \E ok \in BOOLEAN : ConnectAttempt(ok, TRUE)
    \/ ConnectionLost
    \/ ConnectionRestored

SpecConnect == InitConnect /\ [][NextConnect]_vars

\* Every await of connectWithRetry settles: createConnection and
\* waitForConnection end by connectTimeoutMS at the latest, and the timer of
\* sleep() fires.
SpecConnectLive ==
    SpecConnect /\ WF_vars(\E ok \in BOOLEAN : ConnectAttempt(ok, TRUE))

-----------------------------------------------------------------------------
(* Disposal: a manager configured for the remote backend is disposed at any *)
(* point of its life, also while initialize() is still connecting          *)

DisposeAnswers == { Answer(<<"c">>, "global", Undefined) }

InitDispose ==
    /\ InitRemote
    /\ workspaceRoot = "/a"

NextDispose ==
    \/ \E readOk \in BOOLEAN : InitializeStart(readOk)
    \/ \E ok \in BOOLEAN, readOk \in BOOLEAN : ConnectAttempt(ok, readOk)
    \/ \E ok \in BOOLEAN, readOk \in BOOLEAN : MongoFindDone(ok, readOk)
    \/ ConnectionLost
    \/ ConnectionRestored
    \/ \E closeOk \in BOOLEAN : initPc # "new" /\ dispose(closeOk)
    \/ \E a \in DisposeAnswers, writeOk \in BOOLEAN :
           Idle /\ execute(a.text, a.scope, a.language, writeOk)
    \/ \E call \in inflight, ok \in BOOLEAN, writeOk \in BOOLEAN :
           RemoteCreateDone(call, ok, writeOk)

SpecDispose == InitDispose /\ [][NextDispose]_vars

-----------------------------------------------------------------------------
(* Reloading: sessions on the remote backend with fallback enabled, in      *)
(* which the local file can always be written, so that no addRule or       *)
(* removeRule call returns an error; the remote write of a call may fail   *)

ReloadAnswers ==
    { Answer(<<"c">>, "global", Undefined),
      Answer(<<"d">>, "language", "typescript") }

InitReload ==
    /\ InitRemote
    /\ workspaceRoot = "/a"
    /\ fallbackToLocal = TRUE

NextReload ==
    \/ NewSession("/a")
    \/ InitializeStart(TRUE)
    \/ \E ok \in BOOLEAN : ConnectAttempt(ok, TRUE)
    \/ MongoFindDone(TRUE, TRUE)
    \/ \E a \in ReloadAnswers :
           Idle /\ execute(a.text, a.scope, a.language, TRUE)
    \/ \E call \in inflight, ok \in BOOLEAN : RemoteCreateDone(call, ok, TRUE)
    \/ \E ruleId \in RuleIds : Idle /\ removeRule(ruleId, TRUE, "manager")
    \/ \E call \in inflight, ok \in BOOLEAN : RemoteDeleteDone(call, ok, TRUE)

SpecReload == InitReload /\ [][NextReload]_vars

-----------------------------------------------------------------------------
(* Activation as in part_009: the commands are registered first and         *)
(* initializeRuleManagerAsync runs in the background on a manager that the  *)
(* commands already see, so the add-rule command can run while initialize() *)
(* is still connecting                                                      *)

StartupAnswers ==
    { Answer(<<"c">>, "global", Undefined),
      Answer(<<"d">>, "global", Undefined) }

\* a command runs between two awaits of initialize() or after it
CommandCanRun == inflight = {} /\ initPc \in {"connecting", "ready"}

InitStartup ==
    /\ InitRemote
    /\ workspaceRoot = "/a"

NextStartup ==
    \/ NewSession("/a")
    \/ InitializeStart(TRUE)
    \/ \E ok \in BOOLEAN : ConnectAttempt(ok, TRUE)
    \/ \E ok \in BOOLEAN : MongoFindDone(ok, TRUE)
    \/ \E a \in StartupAnswers, writeOk \in BOOLEAN :
           CommandCanRun /\ addRuleCommand(a.text, a.scope, writeOk)
    \/ \E call \in inflight, ok \in BOOLEAN, writeOk \in BOOLEAN :
           RemoteCreateDone(call, ok, writeOk)

SpecStartup == InitStartup /\ [][NextStartup]_vars

-----------------------------------------------------------------------------
(* Properties                                                               *)

\* the characters of s that are not whitespace, in order
NonWs(s) == SelectSeq(s, LAMBDA c : ~IsWs(c))

\* s has no whitespace at either end, and inside only single spaces
IsCollapsed(s) ==
    \A i \in 1..Len(s) :
        IsWs(s[i]) => /\ s[i] = " "
                      /\ i \notin {1, Len(s)}
                      /\ ~IsWs(s[i + 1])

\* the positions of the records of rs that carry this text and scope
Matching(rs, ruleText, scope) ==
    { i \in 1..Len(rs) : rs[i].ruleText = ruleText /\ rs[i].scope = scope }

\* C1: once addRule has completed for a valid text that no stored rule
\* carried, getRules() lists exactly one record whose ruleText is the
\* sanitized input (trimmed, every whitespace run collapsed to one space) and
\* whose scope is the requested scope.
C1_AddedRuleListedOnce ==
    (/\ last.op = "addRule" /\ last.outcome = "ok"
     /\ validateRuleText(last.text).isValid
     /\ ~hasText(last.before, sanitizeInput(last.text))) =>
        LET listed == getRules(Undefined, Undefined)
            hits == Matching(listed, sanitizeInput(last.text), last.scope)
        IN  /\ Cardinality(hits) = 1
            /\ \A i \in hits :
                   /\ listed[i].ruleId = last.ruleId
                   /\ IsCollapsed(listed[i].ruleText)
                   /\ NonWs(listed[i].ruleText) = NonWs(last.text)

\* rs in the order its rules were created
RECURSIVE byInsertion(_)
byInsertion(rs) ==
    IF rs = <<>> THEN <<>>
    ELSE LET i == CHOOSE i \in 1..Len(rs) :
                    \A j \in 1..Len(rs) : rs[i].ruleId <= rs[j].ruleId
             rest == [k \in 1..(Len(rs) - 1) |->
                        IF k < i THEN rs[k] ELSE rs[k + 1]]
         IN  <<rs[i]>> \o byInsertion(rest)

\* the scope resolution for language L: the active global rules, then the
\* active project rules of the current project path, then the active
\* language rules of L, each group in insertion order
ResolvedTexts(L) ==
    LET pick(P(_)) == SelectSeq(byInsertion(rules),
                                LAMBDA r : r.isActive /\ P(r))
        isGlobal(r) == r.scope = "global"
        isProject(r) == r.scope = "project" /\ r.projectPath = workspaceRoot
        isLanguage(r) == r.scope = "language" /\ r.languageScope = L
        all == pick(isGlobal) \o pick(isProject) \o pick(isLanguage)
    IN  [i \in 1..Len(all) |-> all[i].ruleText]

\* C2: for every language id L, getActiveRulesForContext(L) is the texts of
\* the active global rules, then of the active project rules whose
\* projectPath is the current project path, then of the active language
\* rules of L, each group in insertion order.
C2_ResolutionOrder ==
    \A L \in Languages : getActiveRulesForContext(L) = ResolvedTexts(L)

\* C3: adding a rule rejects a text exactly when its length after trimming
\* is 0 or greater than 500, and a rejected text leaves the rule list
\* unchanged and writes to no backend.
C3_RejectedIffTrimmedLength ==
    (last.op = "addRule") =>
        LET rejected == last.text = <<>> \/ last.outcome = "invalid"
            trimmed == Len(trim(last.text))
        IN  /\ rejected <=> (trimmed = 0 \/ trimmed > MaxRuleTextLength)
            /\ rejected => /\ rules = last.before
                           /\ last.localWrite = "none"
                           /\ last.remoteWrite = "none"

\* C4: removeRule with an id that matches no stored rule does not throw and
\* leaves the in-memory rule list unchanged.
C4_RemoveUnknownIsNoOp ==
    (last.op = "removeRule" /\ ~last.existed) =>
        /\ last.outcome = "ok"
        /\ rules = last.before

\* C5: a fresh manager initialized on the file that a manager on the local
\* backend wrote holds the same rules, in the same order and with the same
\* values of every field.
C5_LocalRoundTrip ==
    (/\ initPc = "ready" /\ last.op = "none" /\ loadedFrom = "local"
     /\ previous.path = localFilePath) =>
        rules = previous.rules

C5_Witness ==
    /\ initPc = "ready" /\ last.op = "none" /\ loadedFrom = "local"
    /\ previous.path = localFilePath
    /\ Len(rules) = 2
    /\ rules = previous.rules
    /\ rules[1].createdAt < rules[2].createdAt
    /\ \E i \in 1..2 : rules[i].languageScope # Undefined
    /\ \E i \in 1..2 : rules[i].languageScope = Undefined

\* C6: getRules returns a project-scoped rule only if its projectPath is the
\* current workspace root.
C6_ProjectRulesOfCurrentRootOnly ==
    \A scope \in Scopes \cup {Undefined}, L \in Languages \cup {Undefined} :
        LET listed == getRules(scope, L)
        IN  \A i \in 1..Len(listed) :
                listed[i].scope = "project" =>
                    listed[i].projectPath = workspaceRoot

\* every attempt of connectWithRetry has failed
ConnectExhausted ==
    /\ mongoService.held
    /\ mongoService.connection = "null"
    /\ ~mongoService.isConnecting
    /\ mongoService.attempt = MaxRetries

\* C7: with a non-default URI, every connection attempt failed and fallback
\* enabled, initialize() has completed without error, the rules are those of
\* the local file, and getConnectionInfo() reports the remote as not
\* connected.
C7_FallbackInitialization ==
    (mongodbUri # DefaultUri /\ ConnectExhausted /\ fallbackToLocal) =>
        /\ initPc = "ready"
        /\ loadedFrom \in {"local", "localReadFailed"}
        /\ (last.op = "none" /\ loadedFrom = "local") =>
               rules = parse(files[localFilePath].data)
        /\ ~getConnectionInfo.isMongoConnected

C7_Witness ==
    /\ mongodbUri # DefaultUri /\ ConnectExhausted /\ fallbackToLocal
    /\ initPc = "ready" /\ last.op = "none" /\ loadedFrom = "local"
    /\ Len(rules) > 0
    /\ Len(remote) > 0
    /\ ~getConnectionInfo.isMongoConnected

\* C8: with a non-default URI and fallback disabled, when the connection
\* attempts are exhausted or the initial remote read fails, initialize()
\* fails and the rule list is not loaded from the local file.
C8_NoFallbackInitialization ==
    (/\ mongodbUri # DefaultUri /\ ~fallbackToLocal
     /\ ConnectExhausted \/ findResult = "failed") =>
        /\ initPc = "failed"
        /\ loadedFrom = "none"
        /\ rules = <<>>

C8_Witness ==
    /\ mongodbUri # DefaultUri /\ ~fallbackToLocal
    /\ findResult = "failed"
    /\ initPc = "failed" /\ loadedFrom = "none"
    /\ Len(remote) > 0

\* C9: when addRule or removeRule surfaces a persistence error, the
\* in-memory rule list equals the list before the call.
C9_ErrorRestoresList ==
    (last.op \in {"addRule", "removeRule"} /\ last.outcome = "error") =>
        rules = last.before

\* C10: when the remote write of addRule fails and fallback is enabled, the
\* rule list including the new rule is written to the local file, the new
\* rule stays in the in-memory list, and the call ends in an error only if
\* the local write fails too.
C10_WriteFallback ==
    (last.op = "addRule" /\ last.remoteWrite = "failed" /\ fallbackToLocal) =>
        /\ last.localWrite \in {"ok", "failed"}
        /\ last.outcome = "error" <=> last.localWrite = "failed"
        /\ last.outcome = "ok" <=> last.localWrite = "ok"
        /\ hasId(rules, last.ruleId)
        /\ last.localWrite = "ok" =>
               /\ files[localFilePath].exists
               /\ parse(files[localFilePath].data) = rules
               /\ hasId(parse(files[localFilePath].data), last.ruleId)

C10_Witness ==
    /\ last.op = "addRule" /\ last.remoteWrite = "failed" /\ fallbackToLocal
    /\ last.localWrite = "ok" /\ last.outcome = "ok"
    /\ Len(rules) = 2
    /\ hasId(parse(files[localFilePath].data), last.ruleId)

\* C11: every failure that affects durability is observable: when a remote
\* write has failed and the call fell back to the local file, or a local
\* write or the local read has failed, the operation has ended in an error
\* or getConnectionInfo() reports the remote as not connected.
C11_DurabilityFailureObservable ==
    LET degraded == ~getConnectionInfo.isMongoConnected
    IN  /\ (/\ last.op \in {"addRule", "removeRule"}
             /\ "failed" \in {last.remoteWrite, last.localWrite}) =>
                (last.outcome = "error" \/ degraded)
        /\ loadedFrom = "localReadFailed" =>
                (initPc = "failed" \/ degraded)

\* the backend that initialize() chose at line 242: the remote one exactly
\* when connectToMongoDB succeeded, which is when ruleModel was set
selectedBackend == IF ruleModel THEN "remote" ELSE "local"

\* C12: once initialize() has selected a backend, every addRule and
\* removeRule of the session goes to that backend first, whatever the
\* connection state has become since.
C12_BackendNotReevaluated ==
    (/\ last.op \in {"addRule", "removeRule"}
     /\ last.outcome \in {"ok", "error"}) =>
        (selectedBackend = "remote" <=> last.remoteWrite # "none")

C14_AddRuleReturnsRuleId ==
    (last.op = "addRule" /\ last.via = "api" /\ last.outcome = "ok") =>
        LET listed == getRules(Undefined, Undefined)
            hits == { i \in 1..Len(listed) :
                        listed[i].ruleId = last.returned.value }
            kept == without(rules, last.returned.value)
        IN  /\ last.returned.defined
            /\ last.returned.value = last.ruleId
            /\ Cardinality(hits) = 1
            /\ Len(kept) = Len(rules) - 1
            /\ ~hasId(kept, last.ruleId)

\* C15: the API's removeRule resolves to true and delivers a 'removed'
\* event exactly when a rule with the id existed and was removed; for an id
\* that no stored rule has it resolves to false and delivers no event.
C15_RemoveReportsRemoval ==
    (last.op = "removeRule" /\ last.via = "api" /\ last.ruleId # NoId) =>
        LET removed == last.existed /\ ~hasId(rules, last.ruleId)
        IN  /\ last.answer = "true" <=> removed
            /\ \A l \in Listeners : last.heard[l] # <<>> => removed
            /\ ~last.existed =>
                   /\ last.answer = "false"
                   /\ last.heard = NoEvents

\* C16: a successful addRule of the API delivers exactly one 'added' event
\* with the new rule's id to every listener subscribed when it is emitted,
\* the rule being in the rule set then, and nothing to the others; a failed
\* addRule delivers no event.
C16_AddedEventPerSuccessfulAdd ==
    (last.op = "addRule" /\ last.via = "api") =>
        IF last.outcome = "ok"
        THEN /\ hasId(rules, last.ruleId)
             /\ \A l \in Listeners :
                    IF l \in last.listeners
                    THEN /\ Len(last.heard[l]) = 1
                         /\ last.heard[l][1].type = "added"
                         /\ last.heard[l][1].ruleId = Value(last.ruleId)
                    ELSE last.heard[l] = <<>>
        ELSE last.heard = NoEvents

\* C17: for every registered custom scope and every context, the resolved
\* rules include the active rules stored under that scope when its validator
\* returns true on the context and exclude them when it returns false.
C17_CustomScopeRulesResolved ==
    \A n \in DOMAIN customScopes, context \in Contexts,
       L \in Languages \cup {Undefined} :
        LET resolved == getActiveRulesForContext(L)
            texts == { resolved[i] : i \in 1..Len(resolved) }
            stored == { rules[i].ruleText :
                          i \in { j \in 1..Len(rules) :
                                    rules[j].isActive /\ rules[j].scope = n } }
        IN  IF validateCustomScopeContext(n, context)
            THEN stored \subseteq texts
            ELSE stored \cap texts = {}

C19_ScopeFieldsMatchScope ==
    \A i \in 1..Len(rules) :
        /\ rules[i].languageScope # Undefined <=> rules[i].scope = "language"
        /\ rules[i].projectPath # Undefined <=> rules[i].scope = "project"

\* C20: no two rules of a rule set have the same id, in the rule manager's
\* list and in the simple storage's list, so removing by id removes at most
\* one rule.
C20_RuleIdsUnique ==
    /\ \A i, j \in 1..Len(rules) :
           i # j => rules[i].ruleId # rules[j].ruleId
    /\ \A i, j \in 1..Len(simpleRules) :
           i # j => simpleRules[i].id # simpleRules[j].id

\* s has no whitespace at either end and no two whitespace characters in a row
IsNormalized(s) ==
    \A i \in 1..Len(s) :
        IsWs(s[i]) => /\ i \notin {1, Len(s)}
                      /\ ~IsWs(s[i + 1])

\* C21: every stored rule's text is normalized (no whitespace at either end,
\* no run of more than one whitespace character) and is 1 to 500 characters
\* long, whether the ExtensionAPI or the command handler added it.
C21_StoredTextNormalized ==
    \A i \in 1..Len(rules) :
        /\ IsNormalized(rules[i].ruleText)
        /\ Len(rules[i].ruleText) \in 1..MaxRuleTextLength

\* the part of C21 that the command handler alone is responsible for
C21_HandlerTextNormalized ==
    (last.via = "execute" /\ last.ruleId # 0) =>
        /\ IsNormalized(last.rule.ruleText)
        /\ Len(last.rule.ruleText) \in 1..MaxRuleTextLength

\* the rule of the list that has the id ruleId
storedRule(ruleId) ==
    rules[CHOOSE i \in 1..Len(rules) : rules[i].ruleId = ruleId]

\* C24: a project-scoped rule added through the ExtensionAPI with an explicit
\* projectPath is stored with exactly that path; added with none, it is
\* stored with the current workspace root; added with none while no folder
\* is open, the call fails and adds no rule.
C24_ProjectPathStored ==
    (last.via = "api" /\ last.op = "addRule" /\ last.scope = "project") =>
        IF last.projectPath # Undefined
        THEN last.outcome = "ok" =>
                 /\ hasId(rules, last.ruleId)
                 /\ storedRule(last.ruleId).projectPath = last.projectPath
        ELSE IF workspaceRoot # Undefined
        THEN last.outcome = "ok" =>
                 /\ hasId(rules, last.ruleId)
                 /\ storedRule(last.ruleId).projectPath = workspaceRoot
        ELSE /\ last.outcome = "noWorkspace"
             /\ rules = last.before

\* the two halves of C24 in which no projectPath is passed
C24_DefaultProjectPath ==
    (/\ last.via = "api" /\ last.op = "addRule" /\ last.scope = "project"
     /\ last.projectPath = Undefined) => C24_ProjectPathStored

\* the number of stored rules of a scope
rulesInScope(scope) == Len(SelectSeq(rules, LAMBDA r : r.scope = scope))

\* C22: after any sequence of addRule calls the number of stored rules of
\* each scope is at most the configured maxRulesPerScope.
C22_RulesPerScopeBounded ==
    \A scope \in Scopes : rulesInScope(scope) <= maxRulesPerScope

\* C23: every connect() terminates.  It makes at most maxRetries attempts;
\* it returns the connection of the first attempt that succeeds; when every
\* attempt fails it fails with an error that carries the error of the last
\* attempt; and once it has settled no attempt and no retry timer of that
\* call remains.
C23_ConnectSettled ==
    /\ mongoService.attempt <= mongoService.retryConfig.maxRetries
    /\ Len(mongoService.slept) < mongoService.retryConfig.maxRetries
    /\ ~mongoService.isConnecting => mongoService.running = 0
    /\ \A c \in Callers :
           /\ connectCalls[c].state = "awaiting" => mongoService.running = 1
           /\ connectCalls[c].state = "returned" =>
                  /\ connectCalls[c].connection = "conn"
                  /\ mongoService.connection = "conn"
                  /\ connectCalls[c].error = 0
           /\ connectCalls[c].state = "threw" =>
                  /\ connectCalls[c].error = mongoService.retryConfig.maxRetries
                  /\ connectCalls[c].connection = "null"

C23_ConnectTerminates ==
    /\ []C23_ConnectSettled
    /\ \A c \in Callers :
           (connectCalls[c].state = "awaiting")
               ~> (connectCalls[c].state \in {"returned", "threw"})

\* a connect() failed after three attempts, and the loop it ran is over
C23_Witness ==
    \E c \in Callers :
        /\ connectCalls[c].state = "threw"
        /\ connectCalls[c].how = "started"
        /\ connectCalls[c].error = MaxRetries
        /\ mongoService.attempt = MaxRetries
        /\ ~mongoService.isConnecting

\* C30: after the k-th failed attempt, k < maxRetries, connect() waits
\* retryDelayMs * 2^(k-1) when exponential backoff is enabled (the first wait
\* is retryDelayMs and each further wait is twice the one before) and exactly
\* retryDelayMs when it is disabled; after the final failed attempt it does
\* not wait.
C30_RetryDelays ==
    LET slept == mongoService.slept
        config == mongoService.retryConfig
    IN  /\ \A k \in 1..Len(slept) :
               IF ~config.exponentialBackoff \/ k = 1
               THEN slept[k] = config.retryDelayMs
               ELSE slept[k] = 2 * slept[k - 1]
        /\ mongoService.isConnecting =>
               Len(slept) = mongoService.attempt - 1
        /\ mongoService.thrown # 0 =>
               /\ mongoService.thrown = config.maxRetries
               /\ Len(slept) = config.maxRetries - 1

\* three attempts failed with exponential backoff: two waits, none after the
\* third failure
C30_Witness ==
    /\ mongoService.retryConfig.exponentialBackoff
    /\ mongoService.thrown = MaxRetries
    /\ mongoService.slept = <<RetryDelayMs, 2 * RetryDelayMs>>

\* a caller's connect() call is made in this step
calls(c) ==
    /\ connectCalls'[c] # connectCalls[c]
    /\ connectCalls[c].state # "awaiting"

\* the loop in flight settles in this step
settles == mongoService.isConnecting /\ ~mongoService'.isConnecting

\* C29: however concurrent connect() calls on one MongoService interleave,
\* at most one retry loop is in flight; a call made while an attempt is in
\* progress receives the result of that attempt; a call made while connected
\* returns the existing connection without a new attempt; and a failed
\* connect leaves the service not connecting, so that a later connect()
\* starts a fresh loop.  (When the old connection comes back while a loop is
\* in flight both cases apply; connect() tests for a ready connection first.)
C29_StepOfConnect ==
    /\ mongoService.running <= 1 /\ mongoService'.running <= 1
    /\ mongoService.isConnecting <=> mongoService.running = 1
    /\ \A c \in Callers :
           /\ connectCalls[c].state = "awaiting" => mongoService.isConnecting
           /\ (/\ calls(c) /\ mongoService.isConnecting
               /\ ~hasReadyConnection(mongoService)) =>
                  /\ connectCalls'[c].how = "joined"
                  /\ connectCalls'[c].state = "awaiting"
                  /\ mongoService' = mongoService
           /\ (settles /\ connectCalls[c].state = "awaiting") =>
                  IF mongoService'.thrown = 0
                  THEN /\ connectCalls'[c].state = "returned"
                       /\ connectCalls'[c].connection = mongoService'.connection
                  ELSE /\ connectCalls'[c].state = "threw"
                       /\ connectCalls'[c].error = mongoService'.thrown
           /\ (calls(c) /\ hasReadyConnection(mongoService)) =>
                  /\ connectCalls'[c].state = "returned"
                  /\ connectCalls'[c].connection = mongoService.connection
                  /\ mongoService' = mongoService
           /\ (settles /\ mongoService'.thrown # 0) =>
                  /\ ~mongoService'.isConnecting
                  /\ mongoService'.connectionPromise = "null"
           /\ (/\ calls(c) /\ ~mongoService.isConnecting
               /\ ~hasReadyConnection(mongoService)) =>
                  /\ connectCalls'[c].how = "started"
                  /\ mongoService'.isConnecting
                  /\ mongoService'.attempt = 1
                  /\ mongoService'.running = 1

C25_DisposeReleasesConnection ==
    last.op = "dispose" =>
        /\ last.outcome = "ok"
        /\ mongoService.connection = "null"
        /\ ~getConnectionInfo.isMongoConnected
        /\ (last.service.connection = "null" /\ ~last.service.isConnecting)
               => mongoService = last.service

\* the parts of C25 that do not depend on close() or on the moment of the
\* call: dispose() never throws, and a dispose() that finds no connection
\* and no connect() in progress changes nothing
C25_DisposeNeverThrows ==
    last.op = "dispose" =>
        /\ last.outcome = "ok"
        /\ (last.service.connection = "null" /\ ~last.service.isConnecting)
               => mongoService = last.service

\* the answers given to execute's prompts let it reach the rule manager
answersComplete(call) ==
    /\ call.text # <<>>
    /\ validateRuleText(call.text).isValid
    /\ call.scope # Undefined
    /\ call.scope = "language" => call.languageScope # Undefined

\* C26: AddRuleCommandHandler.execute calls ruleManager.addRule at most once,
\* and only after the text has passed validation and a scope has been
\* selected (and a language, when the scope is language); on cancel or
\* validation failure addRule is never called and no success message is
\* shown; when addRule fails the error is shown and logged and execute
\* completes without throwing.
C26_ExecuteCallsAddRuleOnce ==
    last.via = "execute" =>
        /\ last.managerCalls <= 1
        /\ last.managerCalls = 1 =>
               /\ answersComplete(last)
               /\ last.ruleId # 0
               /\ last.outcome \in {"ok", "error"}
        /\ (last.outcome \in {"cancelled", "invalid"} \/ ~answersComplete(last)) =>
               /\ last.managerCalls = 0
               /\ last.shown # RuleAddedMessage
               /\ rules = last.before
        /\ last.outcome = "error" =>
               /\ last.shown = FailedToAddMessage
               /\ last.logged = "error"
        /\ last.outcome = "ok" => last.shown = RuleAddedMessage
        /\ ~last.threw

\* addRule was called once and failed: the error was shown and logged
C26_Witness ==
    /\ last.via = "execute"
    /\ last.managerCalls = 1
    /\ last.outcome = "error"
    /\ last.shown = FailedToAddMessage
    /\ last.logged = "error"

\* the ids of the rules of a list
idsOf(rs) == {rs[i].ruleId : i \in 1..Len(rs)}

\* the list a fresh manager holds once it has connected to the remote
\* collection and loadRulesFromMongo has read it
freshlyLoaded == fromMongo(findActive)

\* C27: with the remote backend active and fallback enabled, after any
\* sequence of addRule and removeRule calls that all returned without error,
\* including calls whose remote write failed and fell back to the local
\* file, a fresh manager initialized against the same remote collection and
\* local file holds exactly the rules added and not removed.  (No call of
\* such a session failed, so the list of the manager that made the calls is
\* the rules added and not removed; the fresh manager's list is what
\* loadRulesFromMongo makes of the collection.)
C27_FreshManagerSeesAllRules ==
    (/\ ruleModel /\ fallbackToLocal
     /\ loadedFrom = "mongo"
     /\ Idle
     /\ last.op \in {"none", "addRule", "removeRule"}
     /\ last.outcome # "error") =>
        idsOf(freshlyLoaded) = idsOf(rules)

\* the rules the local file of the manager holds
rulesInFile ==
    IF files[localFilePath].exists THEN parse(files[localFilePath].data)
    ELSE <<>>

\* C28: a rule that the add-rule command accepted while the background
\* initialization was still attempting the remote connection is in
\* getRules() once initialization has completed, and the rules that the
\* local file held before are still in the file.
C28_RuleAddedDuringInitKept ==
    (/\ initPc = "ready"
     /\ last.op = "addRule" /\ last.via = "addRuleCommand"
     /\ last.during = "connecting"
     /\ last.outcome = "ok") =>
        /\ hasId(getRules(Undefined, Undefined), last.ruleId)
        /\ idsOf(last.fileBefore) \subseteq idsOf(rulesInFile)

====
